---- MODULE Spec2Model ----
(***************************************************************************)
(* A model of md2tex.py: the Markdown to LaTeX converter                    *)
(* MarkdownToLatexConverter (escape_latex, process_headers,                 *)
(* process_formatting, parse_table_row, flush_table, convert).              *)
(* and the function convert_file.                                           *)
(*                                                                          *)
(* A Python str is modelled as a sequence of one-character strings, so that *)
(* escaping, trimming, splitting and the regular expressions act on         *)
(* characters as the code does.  A list of str is a sequence of such        *)
(* sequences.                                                               *)
(***************************************************************************)
EXTENDS Naturals, Sequences, FiniteSets

VARIABLES
    lines,            \* self.lines: content.split('\n')
    latex_lines,      \* self.latex_lines
    in_table,         \* self.in_table
    table_buffer,     \* self.table_buffer: list of rows, a row is a list of cells
    table_alignments, \* self.table_alignments (never written after __init__)
    in_code_block,    \* convert's local in_code_block
    idx,              \* position of convert's "for line in self.lines" (1-based)
    result,           \* the value convert() returned
    pc,               \* where the converter is: "none" before __init__, "new", "loop", "done",
                      \* "interrupted"; "esc_*" in an escape_latex call
    text,             \* escape_latex's argument
    parts,            \* escape_latex's local parts
    part_idx,         \* position of escape_latex's "for part in parts" (1-based)
    escaped_text,     \* escape_latex's local escaped_text
    previous,         \* what the earlier convert() calls on this converter returned
    fpc,              \* where convert_file is: "none" when the converter is used directly
    exc,              \* the exception convert_file's try block raised, "none" if none
    out_file,         \* the file at output_path: "untouched", "opened", "written"
    printed           \* what convert_file printed, in order

vars == <<lines, latex_lines, in_table, table_buffer, table_alignments,
          in_code_block, idx, result, pc, text, parts, part_idx, escaped_text,
          previous, fpc, exc, out_file, printed>>

convVars == <<lines, latex_lines, in_table, table_buffer, table_alignments,
              in_code_block, idx, result>>

escVars == <<text, parts, part_idx, escaped_text>>

fileVars == <<fpc, exc, out_file, printed>>

----------------------------------------------------------------------------
(* Bounds of the model.                                                     *)

\* a document has at most MaxLines lines
MaxLines == 3

\* escape_latex is applied to every text of at most MaxText characters of EscAlphabet
MaxText == 3

\* and to every text of at most MaxMathText characters of MathAlphabet
MaxMathText == 5

\* the texts text1, text2 around a math span have at most MaxSide characters
MaxSide == 2

\* convert() is called at most MaxCalls times on one converter
MaxCalls == 2

\* a document of the specification with fairness has at most MaxCallLines lines
MaxCallLines == 2

----------------------------------------------------------------------------
(* Python's str operations on sequences of characters.                      *)

\* the element of a set of one element: Only({e(v) : v \in {x}}) is e of a local
\* variable v = x, with x worked out once
Only(S) == CHOOSE r \in S : TRUE

\* every sequence over S of length at most n
SeqsUpTo(S, n) == UNION {[1..k -> S] : k \in 0..n}

RECURSIVE CatRange(_, _, _)
\* ss[lo] + ... + ss[hi], by halves (the recursion stays shallow on long texts)
CatRange(ss, lo, hi) ==
    IF lo > hi THEN <<>>
    ELSE IF lo = hi THEN ss[lo]
    ELSE CatRange(ss, lo, (lo + hi) \div 2) \o CatRange(ss, ((lo + hi) \div 2) + 1, hi)

\* ''.join(ss)
Cat(ss) == Only({CatRange(strs, 1, Len(strs)) : strs \in {ss}})

\* sep.join(ss)
Join(ss, sep) ==
    Only({Cat([k \in 1..(IF strs = <<>> THEN 0 ELSE 2 * Len(strs) - 1) |->
                  IF k % 2 = 1 THEN strs[(k + 1) \div 2] ELSE sep]) : strs \in {ss}})

\* s[k:] for a 0-based k
From(s, k) == SubSeq(s, k + 1, Len(s))

\* s.startswith(p)
StartsWith(s, p) == Len(s) >= Len(p) /\ SubSeq(s, 1, Len(p)) = p

\* s.endswith(p)
EndsWith(s, p) == Len(s) >= Len(p) /\ SubSeq(s, Len(s) - Len(p) + 1, Len(s)) = p

RECURSIVE RStripSet(_, _)
RStripSet(s, C) ==
    IF s # <<>> /\ s[Len(s)] \in C THEN RStripSet(SubSeq(s, 1, Len(s) - 1), C) ELSE s

RECURSIVE LStripSet(_, _)
LStripSet(s, C) ==
    IF s # <<>> /\ s[1] \in C THEN LStripSet(Tail(s), C) ELSE s

\* the characters str.strip() and str.rstrip() remove, of those a model text can hold
Whitespace == {" ", "\t", "\n", "\r"}

\* s.rstrip()
RStrip(s) == RStripSet(s, Whitespace)

\* s.strip()
Strip(s) == LStripSet(RStripSet(s, Whitespace), Whitespace)

\* s.strip(c): every leading and every trailing c is removed
StripChar(s, c) == LStripSet(RStripSet(s, {c}), {c})

RECURSIVE Split(_, _)
\* s.split(c) for a one-character c: one more piece than s has c's
Split(s, c) ==
    IF \A k \in 1..Len(s) : s[k] # c THEN <<s>>
    ELSE LET k == CHOOSE j \in 1..Len(s) : s[j] = c /\ \A m \in 1..(j - 1) : s[m] # c
         IN  <<SubSeq(s, 1, k - 1)>> \o Split(SubSeq(s, k + 1, Len(s)), c)

\* s.replace(c, r) for a one-character c
Replace(s, c, r) == Cat([k \in 1..Len(s) |-> IF s[k] = c THEN r ELSE <<s[k]>>])

----------------------------------------------------------------------------
(* escape_latex                                                             *)

\* special_chars, in the order the dict is written and iterated
special_chars == <<
    << "&",  <<"\\","&">> >>,
    << "%",  <<"\\","%">> >>,
    << "$",  <<"\\","$">> >>,
    << "#",  <<"\\","#">> >>,
    << "_",  <<"\\","_">> >>,
    << "{",  <<"\\","{">> >>,
    << "}",  <<"\\","}">> >>,
    << "~",  <<"\\","t","e","x","t","a","s","c","i","i","t","i","l","d","e","{","}">> >>,
    << "^",  <<"\\","t","e","x","t","a","s","c","i","i","c","i","r","c","u","m","{","}">> >>,
    << "\\", <<"\\","t","e","x","t","b","a","c","k","s","l","a","s","h","{","}">> >> >>

\* first alternative of pattern at position i: \$\$[\s\S]*?\$\$ ; the end of the
\* match (0 when it does not match): the lazy body stops at the first later "$$"
BlockMathEnd(s, i) ==
    IF i + 1 <= Len(s) /\ s[i] = "$" /\ s[i + 1] = "$"
       /\ \E j \in (i + 2)..(Len(s) - 1) : s[j] = "$" /\ s[j + 1] = "$"
    THEN 1 + CHOOSE j \in (i + 2)..(Len(s) - 1) :
                 /\ s[j] = "$" /\ s[j + 1] = "$"
                 /\ \A m \in (i + 2)..(j - 1) : ~(s[m] = "$" /\ s[m + 1] = "$")
    ELSE 0

\* second alternative of pattern at position i: \$[^\$\n]+\$ ; the end of the match
\* (0 when it does not match): the body runs to the next "$", is not empty and
\* holds no newline
InlineMathEnd(s, i) ==
    IF i <= Len(s) /\ s[i] = "$"
       /\ \E j \in (i + 2)..Len(s) :
              s[j] = "$" /\ \A m \in (i + 1)..(j - 1) : s[m] \notin {"$", "\n"}
    THEN CHOOSE j \in (i + 2)..Len(s) :
             s[j] = "$" /\ \A m \in (i + 1)..(j - 1) : s[m] \notin {"$", "\n"}
    ELSE 0

\* where a match of pattern that starts at i ends (0: no match at i); the first
\* alternative is tried first
MathEnd(s, i) == IF BlockMathEnd(s, i) # 0 THEN BlockMathEnd(s, i) ELSE InlineMathEnd(s, i)

\* the leftmost position from i on where pattern matches (0: nowhere)
NextMath(s, i) ==
    IF \E k \in i..Len(s) : MathEnd(s, k) # 0
    THEN CHOOSE k \in i..Len(s) :
             MathEnd(s, k) # 0 /\ \A m \in i..(k - 1) : MathEnd(s, m) = 0
    ELSE 0

RECURSIVE SplitFrom(_, _)
\* re.split(pattern, s) from position i on: the pattern has one capturing group,
\* so the pieces alternate text, match, text, ..., text
SplitFrom(s, i) ==
    LET k == NextMath(s, i)
        e == MathEnd(s, k)
    IN  IF k = 0 THEN <<SubSeq(s, i, Len(s))>>
        ELSE <<SubSeq(s, i, k - 1), SubSeq(s, k, e)>> \o SplitFrom(s, e + 1)

RECURSIVE SplitNoGroup(_, _)
\* re.split with the pattern's capturing parentheses left out: the matches are dropped
SplitNoGroup(s, i) ==
    LET k == NextMath(s, i)
        e == MathEnd(s, k)
    IN  IF k = 0 THEN <<SubSeq(s, i, Len(s))>>
        ELSE <<SubSeq(s, i, k - 1)>> \o SplitNoGroup(s, e + 1)

ReSplitDropsMatches(s) == Only({SplitNoGroup(t, 1) : t \in {s}})

\* parts = re.split(pattern, text)
ReSplit(s) == Only({SplitFrom(t, 1) : t \in {s}})

RECURSIVE ReplaceFrom(_, _)
\* the loop over special_chars.items() from entry k on: '$' is skipped, every
\* other character is replaced in the text the earlier replacements produced
ReplaceFrom(s, k) ==
    IF k > Len(special_chars) THEN s
    ELSE IF special_chars[k][1] = "$" THEN ReplaceFrom(s, k + 1)
    ELSE Only({ReplaceFrom(replaced, k + 1) :
                  replaced \in {Replace(s, special_chars[k][1], special_chars[k][2])}})

RECURSIVE ReplaceEveryFrom(_, _)
\* a loop over special_chars.items() that does not skip '$'
ReplaceEveryFrom(s, k) ==
    IF k > Len(special_chars) THEN s
    ELSE Only({ReplaceEveryFrom(replaced, k + 1) :
                  replaced \in {Replace(s, special_chars[k][1], special_chars[k][2])}})

\* a clean_part in which the '$' of the text is escaped as well
clean_part_escapes_dollar(part) == ReplaceEveryFrom(part, 1)

\* clean_part after the loop
clean_part(part) == ReplaceFrom(part, 1)

\* what one part adds to escaped_text: a part that starts with '$' is copied
PartOut(part) == IF StartsWith(part, <<"$">>) THEN part ELSE clean_part(part)

\* escape_latex(text)
escape_latex(t) ==
    Only({Cat([k \in 1..Len(ps) |-> PartOut(ps[k])]) : ps \in {ReSplit(t)}})

----------------------------------------------------------------------------
(* process_headers                                                          *)

Part == <<"\\","p","a","r","t","{">>
Chapter == <<"\\","c","h","a","p","t","e","r","{">>
Section == <<"\\","s","e","c","t","i","o","n","{">>
Subsection == <<"\\","s","u","b","s","e","c","t","i","o","n","{">>
Subsubsection == <<"\\","s","u","b","s","u","b","s","e","c","t","i","o","n","{">>

\* process_headers returns None when no branch matches; convert tests "if header:", which
\* takes None and the empty string alike, so None is the empty value
None == <<>>

process_headers_shifted(line) ==
    IF StartsWith(line, <<"#"," ">>) THEN Part \o escape_latex(Strip(From(line, 2))) \o <<"}">>
    ELSE IF StartsWith(line, <<"#","#"," ">>)
         THEN Chapter \o escape_latex(Strip(From(line, 3))) \o <<"}">>
    ELSE IF StartsWith(line, <<"#","#","#"," ">>)
         THEN Section \o escape_latex(Strip(From(line, 4))) \o <<"}">>
    ELSE IF StartsWith(line, <<"#","#","#","#"," ">>)
         THEN Section \o escape_latex(Strip(From(line, 5))) \o <<"}">>
    ELSE IF StartsWith(line, <<"#","#","#","#","#"," ">>)
         THEN Subsection \o escape_latex(Strip(From(line, 6))) \o <<"}">>
    ELSE None

process_headers(line) ==
    IF StartsWith(line, <<"#"," ">>) THEN Part \o escape_latex(Strip(From(line, 2))) \o <<"}">>
    ELSE IF StartsWith(line, <<"#","#"," ">>)
         THEN Chapter \o escape_latex(Strip(From(line, 3))) \o <<"}">>
    ELSE IF StartsWith(line, <<"#","#","#"," ">>)
         THEN Section \o escape_latex(Strip(From(line, 4))) \o <<"}">>
    ELSE IF StartsWith(line, <<"#","#","#","#"," ">>)
         THEN Subsection \o escape_latex(Strip(From(line, 5))) \o <<"}">>
    ELSE IF StartsWith(line, <<"#","#","#","#","#"," ">>)
         THEN Subsubsection \o escape_latex(Strip(From(line, 6))) \o <<"}">>
    ELSE None

----------------------------------------------------------------------------
(* process_formatting                                                       *)

\* r'\*\*(.*?)\*\*' at position i: where the closing "**" starts (0: no match at i);
\* the lazy group stops at the first later "**", and '.' matches no newline
BoldClose(s, i) ==
    IF i + 1 <= Len(s) /\ s[i] = "*" /\ s[i + 1] = "*"
       /\ \E j \in (i + 2)..(Len(s) - 1) :
              /\ s[j] = "*" /\ s[j + 1] = "*"
              /\ \A m \in (i + 2)..(j - 1) : s[m] # "\n"
    THEN CHOOSE j \in (i + 2)..(Len(s) - 1) :
             /\ s[j] = "*" /\ s[j + 1] = "*"
             /\ \A m \in (i + 2)..(j - 1) : ~(s[m] = "*" /\ s[m + 1] = "*")
    ELSE 0

\* the leftmost position from i on where the bold pattern matches (0: nowhere)
NextBold(s, i) ==
    IF \E k \in i..Len(s) : BoldClose(s, k) # 0
    THEN CHOOSE k \in i..Len(s) :
             BoldClose(s, k) # 0 /\ \A m \in i..(k - 1) : BoldClose(s, m) = 0
    ELSE 0

RECURSIVE SubBold(_, _)
\* re.sub(r'\*\*(.*?)\*\*', lambda m: r'\textbf{' + m.group(1) + '}', s) from i on
SubBold(s, i) ==
    LET k == NextBold(s, i)
        c == BoldClose(s, k)
    IN  IF k = 0 THEN SubSeq(s, i, Len(s))
        ELSE SubSeq(s, i, k - 1) \o <<"\\","t","e","x","t","b","f","{">> \o SubSeq(s, k + 2, c - 1) \o <<"}">>
             \o SubBold(s, c + 2)

\* r'\*(.*?)\*' at position i: where the closing "*" is (0: no match at i)
ItalicClose(s, i) ==
    IF i <= Len(s) /\ s[i] = "*"
       /\ \E j \in (i + 1)..Len(s) :
              s[j] = "*" /\ \A m \in (i + 1)..(j - 1) : s[m] # "\n"
    THEN CHOOSE j \in (i + 1)..Len(s) :
             s[j] = "*" /\ \A m \in (i + 1)..(j - 1) : s[m] # "*"
    ELSE 0

\* the leftmost position from i on where the italic pattern matches (0: nowhere)
NextItalic(s, i) ==
    IF \E k \in i..Len(s) : ItalicClose(s, k) # 0
    THEN CHOOSE k \in i..Len(s) :
             ItalicClose(s, k) # 0 /\ \A m \in i..(k - 1) : ItalicClose(s, m) = 0
    ELSE 0

RECURSIVE SubItalic(_, _)
\* re.sub(r'\*(.*?)\*', lambda m: r'\textit{' + m.group(1) + '}', s) from i on
SubItalic(s, i) ==
    LET k == NextItalic(s, i)
        c == ItalicClose(s, k)
    IN  IF k = 0 THEN SubSeq(s, i, Len(s))
        ELSE SubSeq(s, i, k - 1) \o <<"\\","t","e","x","t","i","t","{">> \o SubSeq(s, k + 1, c - 1) \o <<"}">>
             \o SubItalic(s, c + 1)

\* process_formatting(line): the bold pass, then the italic pass
process_formatting(line) ==
    Only({SubItalic(bold, 1) : bold \in {Only({SubBold(s, 1) : s \in {line}})}})

----------------------------------------------------------------------------
(* parse_table_row and flush_table                                          *)

\* parse_table_row(line): line.strip('|'), split on '|', each cell stripped
parse_table_row(line) ==
    Only({[k \in 1..Len(cells) |-> Strip(cells[k])] :
             cells \in {Split(StripChar(line, "|"), "|")}})

\* " & ".join([self.escape_latex(c) for c in row]) + r' \\ \hline'
TableRowTex(row) ==
    Join([k \in 1..Len(row) |-> escape_latex(row[k])], <<" ","&"," ">>) \o <<" ","\\","\\"," ","\\","h","l","i","n","e">>

\* "|".join(["l"] * cols)
col_def(cols) == Join([k \in 1..cols |-> <<"l">>], <<"|">>)

\* the list tex that flush_table builds from a buffer that is not empty
FlushTex(buffer) ==
    << <<"\\","b","e","g","i","n","{","t","a","b","l","e","}","[","h","!","]">>,
       <<"\\","c","e","n","t","e","r","i","n","g">>,
       <<"\\","b","e","g","i","n","{","t","a","b","u","l","a","r","}","{","|">> \o col_def(Len(buffer[1])) \o <<"|","}">>,
       <<"\\","h","l","i","n","e">>,
       TableRowTex(buffer[1]) >>
    \o [k \in 1..(IF Len(buffer) >= 2 THEN Len(buffer) - 2 ELSE 0) |-> TableRowTex(buffer[k + 2])]
    \o << <<"\\","e","n","d","{","t","a","b","u","l","a","r","}">>, <<"\\","e","n","d","{","t","a","b","l","e","}">> >>

\* a flush_table that forgets to reset the table state
flush_table_keeps_state(buffer, flag) ==
    IF buffer = <<>>
    THEN [ret |-> <<>>, table_buffer |-> buffer, in_table |-> flag]
    ELSE [ret |-> Join(FlushTex(buffer), <<"\n">>), table_buffer |-> buffer, in_table |-> flag]

\* flush_table() on self.table_buffer = buffer, self.in_table = flag: the string
\* it returns and the two fields after it
flush_table(buffer, flag) ==
    IF buffer = <<>>
    THEN [ret |-> <<>>, table_buffer |-> buffer, in_table |-> flag]
    ELSE [ret |-> Join(FlushTex(buffer), <<"\n">>), table_buffer |-> <<>>, in_table |-> FALSE]

----------------------------------------------------------------------------
(* convert: the constant output lines                                       *)

\* the entries convert appends before the loop
Preamble == <<
    <<"\\","d","o","c","u","m","e","n","t","c","l","a","s","s","[","a","4","p","a","p","e","r",",","1","2","p","t","]","{","r","e","p","o","r","t","}">>,
    <<"\\","u","s","e","p","a","c","k","a","g","e","{","g","e","o","m","e","t","r","y","}">>,
    <<"\\","g","e","o","m","e","t","r","y","{","l","e","f","t","=","2",".","5","c","m",",","r","i","g","h","t","=","2",".","5","c","m",",","t","o","p","=","2",".","5","c","m",",","b","o","t","t","o","m","=","2",".","5","c","m","}">>,
    <<"\\","u","s","e","p","a","c","k","a","g","e","{","a","m","s","m","a","t","h",","," ","a","m","s","s","y","m","b","}">>,
    <<"\\","u","s","e","p","a","c","k","a","g","e","{","x","e","C","J","K","}">>,
    <<"\\","s","e","t","C","J","K","m","a","i","n","f","o","n","t","{","S","i","m","S","u","n","}">>,
    <<"\\","u","s","e","p","a","c","k","a","g","e","{","h","y","p","e","r","r","e","f","}">>,
    <<"\\","u","s","e","p","a","c","k","a","g","e","{","g","r","a","p","h","i","c","x","}">>,
    <<"\\","u","s","e","p","a","c","k","a","g","e","{","l","i","s","t","i","n","g","s","}">>,
    <<"\\","u","s","e","p","a","c","k","a","g","e","{","x","c","o","l","o","r","}">>,
    <<"\\","u","s","e","p","a","c","k","a","g","e","{","f","l","o","a","t","}">>,
    <<"\n",
      "\\","l","s","t","s","e","t","{","\n",
      " "," "," "," ","b","a","s","i","c","s","t","y","l","e","=","\\","t","t","f","a","m","i","l","y","\\","s","m","a","l","l",",","\n",
      " "," "," "," ","b","r","e","a","k","l","i","n","e","s","=","t","r","u","e",",","\n",
      " "," "," "," ","f","r","a","m","e","=","s","i","n","g","l","e",",","\n",
      " "," "," "," ","b","a","c","k","g","r","o","u","n","d","c","o","l","o","r","=","\\","c","o","l","o","r","{","g","r","a","y","!","1","0","}",",","\n",
      " "," "," "," ","k","e","y","w","o","r","d","s","t","y","l","e","=","\\","c","o","l","o","r","{","b","l","u","e","}",",","\n",
      " "," "," "," ","c","o","m","m","e","n","t","s","t","y","l","e","=","\\","c","o","l","o","r","{","g","r","e","e","n","!","5","0","!","b","l","a","c","k","}",",","\n",
      " "," "," "," ","s","t","r","i","n","g","s","t","y","l","e","=","\\","c","o","l","o","r","{","r","e","d","}","\n",
      "}","\n">>,
    <<"\\","b","e","g","i","n","{","d","o","c","u","m","e","n","t","}">>,
    <<"\\","t","a","b","l","e","o","f","c","o","n","t","e","n","t","s">>,
    <<"\\","n","e","w","p","a","g","e">> >>

BeginListing == <<"\\","b","e","g","i","n","{","l","s","t","l","i","s","t","i","n","g","}">>
EndListing == <<"\\","e","n","d","{","l","s","t","l","i","s","t","i","n","g","}">>
BeginQuote == <<"\\","b","e","g","i","n","{","q","u","o","t","e","}">>
EndQuote == <<"\\","e","n","d","{","q","u","o","t","e","}">>
BeginItemize == <<"\\","b","e","g","i","n","{","i","t","e","m","i","z","e","}">>
Item == <<"\\","i","t","e","m"," ">>
EndItemize == <<"\\","e","n","d","{","i","t","e","m","i","z","e","}">>
MathOpen == <<"\\","[">>
MathClose == <<"\\","]">>
LineBreak == <<" ","\\","\\">>
Par == <<"\\","p","a","r">>
EndDocument == <<"\\","e","n","d","{","d","o","c","u","m","e","n","t","}">>
\* the grave accent (a TLA+ string cannot hold the character itself)
Backtick == "grave"

\* the fence marker: three grave accents
Fence == <<Backtick, Backtick, Backtick>>

----------------------------------------------------------------------------
(* convert: the rules of the loop body, on the right-trimmed line           *)

\* line.startswith of the fence marker, three grave accents
IsFence(ln) == StartsWith(ln, Fence)

\* line.strip().startswith('|') and line.strip().endswith('|')
IsTableRow(ln) == StartsWith(Strip(ln), <<"|">>) /\ EndsWith(Strip(ln), <<"|">>)

\* line.startswith('> ')
IsQuote(ln) == StartsWith(ln, <<">"," ">>)

\* line.strip().startswith('- ') or line.strip().startswith('* ')
IsBullet(ln) == StartsWith(Strip(ln), <<"-"," ">>) \/ StartsWith(Strip(ln), <<"*"," ">>)

\* line.strip() == '$$'
IsMathDelimiter(ln) == Strip(ln) = <<"$","$">>

\* what the fence rule appends: the close marker inside a code block, else the open marker
FenceOut(inside) == IF inside THEN EndListing ELSE BeginListing

\* a passthrough that escapes the line
PassthroughEscaped(ln) == escape_latex(ln)

\* what the passthrough rule appends: the line itself
PassthroughOut(ln) == ln

\* what the quote rule appends
QuoteOut(ln) == BeginQuote \o process_formatting(escape_latex(From(ln, 2))) \o EndQuote

\* a list rule that leaves the list open for the next item
ListOutLeftOpen(ln) ==
    << BeginItemize, Item \o process_formatting(escape_latex(From(Strip(ln), 2))) >>

\* what the list rule appends: a list of one item, opened and closed
ListOut(ln) ==
    << BeginItemize,
       Item \o process_formatting(escape_latex(From(Strip(ln), 2))),
       EndItemize >>

\* what the paragraph rule appends for a line that is not blank
ParagraphOut(ln) == process_formatting(escape_latex(ln)) \o LineBreak

\* a table end that writes the table into the entry before it
TableEndRewritesLast ==
    IF in_table
    THEN LET f == flush_table(table_buffer, in_table)
         IN  [out |-> [latex_lines EXCEPT ![Len(latex_lines)] = @ \o <<"\n">> \o f.ret],
              table_buffer |-> f.table_buffer, in_table |-> f.in_table]
    ELSE [out |-> latex_lines, table_buffer |-> table_buffer, in_table |-> in_table]

\* the else branch of the table rule: a buffered table is flushed before the
\* line goes on to the later rules
TableEnd ==
    IF in_table
    THEN LET f == flush_table(table_buffer, in_table)
         IN  [out |-> Append(latex_lines, f.ret),
              table_buffer |-> f.table_buffer, in_table |-> f.in_table]
    ELSE [out |-> latex_lines, table_buffer |-> table_buffer, in_table |-> in_table]

----------------------------------------------------------------------------
(* The documents the converter is constructed with.                         *)

\* lines of every kind the loop tells apart: blank, fence, text with a special
\* character, emphasis and trailing blanks, table rows (plain, indented, with an
\* empty first cell, a lone delimiter), quote, bullets, math delimiter, math span,
\* unbalanced emphasis markers
BlockLines == {
    <<>>,
    Fence,
    <<"*","a","&","*"," ">>,
    <<"|","a","|","b","|">>,
    <<" ","|","a","|","b","|">>,
    <<"|","|","a","|">>,
    <<"|">>,
    <<">"," ","a">>,
    <<"-"," ","a">>,
    <<" ","*"," ","a","&">>,
    <<"$","$">>,
    <<"$","*","a","*","$">>,
    <<"*","*","a","*">> }

\* heading lines of every level, a marker run that is too long, a bare marker,
\* and the lines that put the converter in code or table mode before them
HeadingLines == {
    <<"#"," ","a">>,
    <<"#","#"," "," ","*","a","&","*">>,
    <<"#","#","#"," ","a">>,
    <<"#","#","#","#"," ","a">>,
    <<"#","#","#","#","#"," ","a">>,
    <<"#","#","#","#","#","#"," ","a">>,
    <<"#">>,
    Fence,
    <<"|","a","|","b","|">> }

\* content.split('\n') is never empty, and no line holds a newline
Docs == UNION {[1..n -> BlockLines] \cup [1..n -> HeadingLines] : n \in 1..MaxLines}

\* the documents of the specification with fairness
CallDocs == UNION {[1..n -> BlockLines] \cup [1..n -> HeadingLines] : n \in 1..MaxCallLines}

----------------------------------------------------------------------------
(* The converter: __init__, then convert() line by line.                    *)

Init ==
    /\ lines \in Docs
    /\ latex_lines = <<>>
    /\ in_table = FALSE
    /\ table_buffer = <<>>
    /\ table_alignments = <<>>
    /\ in_code_block = FALSE
    /\ idx = 0
    /\ result = <<>>
    /\ pc = "new"
    /\ text = <<>>
    /\ parts = <<>>
    /\ part_idx = 0
    /\ escaped_text = <<>>
    /\ previous = <<>>
    /\ fpc = "none"
    /\ exc = "none"
    /\ out_file = "untouched"
    /\ printed = <<>>

\* the line of the current iteration, after line = line.rstrip()
line == RStrip(lines[idx])

InLoop == pc = "loop" /\ idx <= Len(lines)

\* convert() up to the loop: the preamble is appended, in_code_block = False
ConvertStart ==
    /\ pc = "new"
    /\ latex_lines' = latex_lines \o Preamble
    /\ in_code_block' = FALSE
    /\ idx' = 1
    /\ pc' = "loop"
    /\ UNCHANGED <<lines, in_table, table_buffer, table_alignments, result,
                   escVars, previous, fileVars>>

\* rule 1: a fence line toggles in_code_block
FenceLine ==
    /\ InLoop
    /\ IsFence(line)
    /\ latex_lines' = Append(latex_lines, FenceOut(in_code_block))
    /\ in_code_block' = ~in_code_block
    /\ idx' = idx + 1
    /\ UNCHANGED <<lines, in_table, table_buffer, table_alignments, result, pc,
                   escVars, previous, fileVars>>

\* rule 1, inside a code block: the line is appended
CodeLine ==
    /\ InLoop
    /\ ~IsFence(line)
    /\ in_code_block
    /\ latex_lines' = Append(latex_lines, PassthroughOut(line))
    /\ idx' = idx + 1
    /\ UNCHANGED <<lines, in_table, table_buffer, table_alignments, in_code_block,
                   result, pc, escVars, previous, fileVars>>

\* a table rule that fails on a row of the delimiter alone
TableRowRejectsLoneDelimiter ==
    /\ InLoop
    /\ ~IsFence(line)
    /\ ~in_code_block
    /\ IsTableRow(line)
    /\ Len(Strip(line)) >= 2
    /\ in_table' = TRUE
    /\ table_buffer' = Append(table_buffer, parse_table_row(line))
    /\ idx' = idx + 1
    /\ UNCHANGED <<lines, latex_lines, table_alignments, in_code_block, result, pc,
                   escVars, previous, fileVars>>

\* rule 2: a table row is parsed and buffered
TableRow ==
    /\ InLoop
    /\ ~IsFence(line)
    /\ ~in_code_block
    /\ IsTableRow(line)
    /\ in_table' = TRUE
    /\ table_buffer' = Append(table_buffer, parse_table_row(line))
    /\ idx' = idx + 1
    /\ UNCHANGED <<lines, latex_lines, table_alignments, in_code_block, result, pc,
                   escVars, previous, fileVars>>

\* the line reaches the rules after the table rule
PastTable == InLoop /\ ~IsFence(line) /\ ~in_code_block /\ ~IsTableRow(line)

\* what every rule after the table rule does besides appending its own output
AfterTableEnd ==
    /\ table_buffer' = TableEnd.table_buffer
    /\ in_table' = TableEnd.in_table
    /\ idx' = idx + 1
    /\ UNCHANGED <<lines, table_alignments, in_code_block, result, pc, escVars, previous, fileVars>>

\* rule 3: a heading
Heading ==
    /\ PastTable
    /\ process_headers(line) # None
    /\ latex_lines' = Append(TableEnd.out, process_headers(line))
    /\ AfterTableEnd

\* rule 4: a block quote
BlockQuote ==
    /\ PastTable
    /\ process_headers(line) = None
    /\ IsQuote(line)
    /\ latex_lines' = Append(TableEnd.out, QuoteOut(line))
    /\ AfterTableEnd

\* rule 5: a list item
ListItem ==
    /\ PastTable
    /\ process_headers(line) = None
    /\ ~IsQuote(line)
    /\ IsBullet(line)
    /\ latex_lines' = TableEnd.out \o ListOut(line)
    /\ AfterTableEnd

\* a rule 6 that keeps track of the open display: the second $$ line closes it
MathDelimiterAlternates ==
    /\ PastTable
    /\ process_headers(line) = None
    /\ ~IsQuote(line)
    /\ ~IsBullet(line)
    /\ IsMathDelimiter(line)
    /\ latex_lines' = Append(TableEnd.out,
          IF Cardinality({k \in 1..Len(latex_lines) : latex_lines[k] = MathOpen})
               > Cardinality({k \in 1..Len(latex_lines) : latex_lines[k] = MathClose})
          THEN MathClose ELSE MathOpen)
    /\ AfterTableEnd

\* rule 6: a line that is $$; the second test of the same condition is never reached
MathDelimiter ==
    /\ PastTable
    /\ process_headers(line) = None
    /\ ~IsQuote(line)
    /\ ~IsBullet(line)
    /\ IsMathDelimiter(line)
    /\ latex_lines' = Append(TableEnd.out, MathOpen)
    /\ AfterTableEnd

\* the line reaches rule 7
PastMath ==
    /\ PastTable
    /\ process_headers(line) = None
    /\ ~IsQuote(line)
    /\ ~IsBullet(line)
    /\ ~IsMathDelimiter(line)

\* rule 7: a line that is not blank
Paragraph ==
    /\ PastMath
    /\ Strip(line) # <<>>
    /\ latex_lines' = Append(TableEnd.out, ParagraphOut(line))
    /\ AfterTableEnd

\* rule 7: a blank line
BlankLine ==
    /\ PastMath
    /\ Strip(line) = <<>>
    /\ latex_lines' = Append(TableEnd.out, Par)
    /\ AfterTableEnd

\* a convert that closes a fence left open at the end of the input
ConvertFinishClosesFence ==
    /\ pc = "loop"
    /\ idx > Len(lines)
    /\ LET closed == IF in_code_block THEN Append(latex_lines, EndListing) ELSE latex_lines
           f == flush_table(table_buffer, in_table)
           out == (IF in_table THEN Append(closed, f.ret) ELSE closed) \o <<EndDocument>>
       IN  /\ latex_lines' = out
           /\ table_buffer' = IF in_table THEN f.table_buffer ELSE table_buffer
           /\ in_table' = IF in_table THEN f.in_table ELSE in_table
           /\ result' = Join(out, <<"\n">>)
    /\ pc' = "done"
    /\ UNCHANGED <<lines, table_alignments, in_code_block, idx, escVars, previous, fileVars>>

\* a convert that closes the document without the final flush
ConvertFinishNoFlush ==
    /\ pc = "loop"
    /\ idx > Len(lines)
    /\ latex_lines' = Append(latex_lines, EndDocument)
    /\ result' = Join(Append(latex_lines, EndDocument), <<"\n">>)
    /\ pc' = "done"
    /\ UNCHANGED <<lines, in_table, table_buffer, table_alignments, in_code_block, idx,
                   escVars, previous, fileVars>>

\* after the loop: a table still buffered is flushed, the document is closed and
\* the joined output returned
ConvertFinish ==
    /\ pc = "loop"
    /\ idx > Len(lines)
    /\ LET f == flush_table(table_buffer, in_table)
           out == (IF in_table THEN Append(latex_lines, f.ret) ELSE latex_lines)
                  \o <<EndDocument>>
       IN  /\ latex_lines' = out
           /\ table_buffer' = IF in_table THEN f.table_buffer ELSE table_buffer
           /\ in_table' = IF in_table THEN f.in_table ELSE in_table
           /\ result' = Join(out, <<"\n">>)
    /\ pc' = "done"
    /\ UNCHANGED <<lines, table_alignments, in_code_block, idx, escVars, previous, fileVars>>

Next ==
    \/ ConvertStart
    \/ FenceLine
    \/ CodeLine
    \/ TableRow
    \/ Heading
    \/ BlockQuote
    \/ ListItem
    \/ MathDelimiter
    \/ Paragraph
    \/ BlankLine
    \/ ConvertFinish

Spec == Init /\ [][Next]_vars

----------------------------------------------------------------------------
(* convert() called again on the same converter.                            *)

\* the caller keeps what convert() returned and calls convert() once more: the
\* fields of the converter are what the call before left in them
ConvertAgain ==
    /\ pc = "done"
    /\ fpc = "none"
    /\ Len(previous) + 1 < MaxCalls
    /\ previous' = Append(previous, result)
    /\ pc' = "new"
    /\ UNCHANGED <<convVars, escVars, fileVars>>

NextTwice == Next \/ ConvertAgain

SpecTwice == Init /\ [][NextTwice]_vars

----------------------------------------------------------------------------
(* convert() as it runs: a call that has started goes on to its next        *)
(* statement until it returns.                                              *)

\* no converter yet
InitCall ==
    /\ lines = <<>>
    /\ latex_lines = <<>>
    /\ in_table = FALSE
    /\ table_buffer = <<>>
    /\ table_alignments = <<>>
    /\ in_code_block = FALSE
    /\ idx = 0
    /\ result = <<>>
    /\ pc = "none"
    /\ text = <<>>
    /\ parts = <<>>
    /\ part_idx = 0
    /\ escaped_text = <<>>
    /\ previous = <<>>
    /\ fpc = "none"
    /\ exc = "none"
    /\ out_file = "untouched"
    /\ printed = <<>>

\* MarkdownToLatexConverter(content): the fields after __init__
Construct ==
    /\ pc = "none"
    /\ fpc = "none"
    /\ lines' \in CallDocs
    /\ latex_lines' = <<>>
    /\ in_table' = FALSE
    /\ table_buffer' = <<>>
    /\ table_alignments' = <<>>
    /\ pc' = "new"
    /\ UNCHANGED <<in_code_block, idx, result, escVars, previous, fileVars>>

NextCall == Construct \/ Next

FairSpec == InitCall /\ [][NextCall]_vars /\ WF_vars(NextCall)

----------------------------------------------------------------------------
(* escape_latex, step by step, on the texts it is given.                    *)

\* the special characters, the '$', a letter, the blank and the newline
EscAlphabet == {"&", "%", "#", "_", "{", "}", "~", "^", "\\", "$", "a", " ", "\n"}

\* longer texts over a few characters, so that both forms of a math span occur
MathAlphabet == {"$", "a", "&"}

\* texts without a special character and without '$'
SideTexts == SeqsUpTo({"a", " ", "*", "\n"}, MaxSide)

\* the math span of the form text1 $x+y$ text2, with the blanks around it
XPlusY == <<"$","x","+","y","$">>

SpanTexts == {t1 \o <<" ">> \o XPlusY \o <<" ">> \o t2 : t1 \in SideTexts, t2 \in SideTexts}

Texts == SeqsUpTo(EscAlphabet, MaxText) \cup SeqsUpTo(MathAlphabet, MaxMathText) \cup SpanTexts

\* a converter is constructed (of the empty content) and escape_latex(text) called
InitEscape ==
    /\ lines = << <<>> >>
    /\ latex_lines = <<>>
    /\ in_table = FALSE
    /\ table_buffer = <<>>
    /\ table_alignments = <<>>
    /\ in_code_block = FALSE
    /\ idx = 0
    /\ result = <<>>
    /\ pc = "esc_split"
    /\ text \in Texts
    /\ parts = <<>>
    /\ part_idx = 0
    /\ escaped_text = <<>>
    /\ previous = <<>>
    /\ fpc = "none"
    /\ exc = "none"
    /\ out_file = "untouched"
    /\ printed = <<>>

\* parts = re.split(pattern, text); escaped_text = ""
EscapeSplit ==
    /\ pc = "esc_split"
    /\ parts' = ReSplit(text)
    /\ part_idx' = 1
    /\ escaped_text' = <<>>
    /\ pc' = "esc_loop"
    /\ UNCHANGED <<previous, fileVars, convVars, text>>

\* one iteration of "for part in parts"
EscapePart ==
    /\ pc = "esc_loop"
    /\ part_idx <= Len(parts)
    /\ escaped_text' = escaped_text \o PartOut(parts[part_idx])
    /\ part_idx' = part_idx + 1
    /\ UNCHANGED <<previous, fileVars, convVars, text, parts, pc>>

\* return escaped_text
EscapeReturn ==
    /\ pc = "esc_loop"
    /\ part_idx > Len(parts)
    /\ pc' = "esc_done"
    /\ UNCHANGED <<previous, fileVars, convVars, escVars>>

NextEscape == EscapeSplit \/ EscapePart \/ EscapeReturn

SpecEscape == InitEscape /\ [][NextEscape]_vars


----------------------------------------------------------------------------
(* convert_file(input_path, output_path)                                    *)

\* what open() and read() of the input raise: the file is missing, or is not UTF-8
InputErrors == {"FileNotFoundError", "UnicodeDecodeError"}

\* what open() and write() of the output raise
OutputErrors == {"PermissionError", "OSError"}

\* the two lines printed after the write
SuccessMessages ==
    << [kind |-> "success", text |-> "output_path"], [kind |-> "hint", text |-> "xelatex"] >>

\* print(f"... {e}")
ErrorMessage(e) == [kind |-> "error", text |-> e]

\* convert_file is called: nothing is read, no converter exists
InitFile ==
    /\ lines = <<>>
    /\ latex_lines = <<>>
    /\ in_table = FALSE
    /\ table_buffer = <<>>
    /\ table_alignments = <<>>
    /\ in_code_block = FALSE
    /\ idx = 0
    /\ result = <<>>
    /\ pc = "none"
    /\ text = <<>>
    /\ parts = <<>>
    /\ part_idx = 0
    /\ escaped_text = <<>>
    /\ previous = <<>>
    /\ fpc = "read"
    /\ exc = "none"
    /\ out_file = "untouched"
    /\ printed = <<>>

\* the input is opened and read, and the converter constructed with its content
ReadInput ==
    /\ fpc = "read"
    /\ lines' \in CallDocs
    /\ latex_lines' = <<>>
    /\ in_table' = FALSE
    /\ table_buffer' = <<>>
    /\ table_alignments' = <<>>
    /\ pc' = "new"
    /\ fpc' = "convert"
    /\ UNCHANGED <<in_code_block, idx, result, escVars, previous, exc, out_file, printed>>

\* open() or read() of the input raises
ReadFails ==
    /\ fpc = "read"
    /\ exc' \in InputErrors
    /\ fpc' = "except"
    /\ UNCHANGED <<convVars, pc, escVars, previous, out_file, printed>>

\* convert() has returned; the output is opened for writing, which empties it
OpenOutput ==
    /\ fpc = "convert"
    /\ pc = "done"
    /\ out_file' = "opened"
    /\ fpc' = "write"
    /\ UNCHANGED <<convVars, pc, escVars, previous, exc, printed>>

\* open() of the output raises
OpenFails ==
    /\ fpc = "convert"
    /\ pc = "done"
    /\ exc' \in OutputErrors
    /\ fpc' = "except"
    /\ UNCHANGED <<convVars, pc, escVars, previous, out_file, printed>>

\* f.write(latex_content), and the file is closed
WriteOutput ==
    /\ fpc = "write"
    /\ out_file' = "written"
    /\ fpc' = "print"
    /\ UNCHANGED <<convVars, pc, escVars, previous, exc, printed>>

\* write() or the close of the output raises
WriteFails ==
    /\ fpc = "write"
    /\ exc' \in OutputErrors
    /\ fpc' = "except"
    /\ UNCHANGED <<convVars, pc, escVars, previous, out_file, printed>>

\* the two print calls that end the try block
PrintSuccess ==
    /\ fpc = "print"
    /\ printed' = printed \o SuccessMessages
    /\ fpc' = "returned"
    /\ UNCHANGED <<convVars, pc, escVars, previous, exc, out_file>>

\* a handler that returns without a message
HandleExceptionSilent ==
    /\ fpc = "except"
    /\ fpc' = "returned"
    /\ UNCHANGED <<convVars, pc, escVars, previous, exc, out_file, printed>>

\* except Exception as e: the message with the exception's text is printed
HandleException ==
    /\ fpc = "except"
    /\ printed' = Append(printed, ErrorMessage(exc))
    /\ fpc' = "returned"
    /\ UNCHANGED <<convVars, pc, escVars, previous, exc, out_file>>

\* the user interrupts the program while it reads, converts or writes: a
\* KeyboardInterrupt is no Exception, so the except clause lets it pass to the caller
Interrupt ==
    /\ fpc \in {"read", "convert", "write"}
    /\ exc' = "KeyboardInterrupt"
    /\ fpc' = "raised"
    /\ pc' = IF pc \in {"new", "loop"} THEN "interrupted" ELSE pc
    /\ UNCHANGED <<convVars, escVars, previous, out_file, printed>>

NextFile ==
    \/ ReadInput
    \/ ReadFails
    \/ OpenOutput
    \/ OpenFails
    \/ WriteOutput
    \/ WriteFails
    \/ PrintSuccess
    \/ HandleException
    \/ Interrupt
    \/ Next

SpecFile == InitFile /\ [][NextFile]_vars
----------------------------------------------------------------------------
(* The claims.  What a claim needs beyond the model is defined here, in the *)
(* claim's own words, apart from the definitions that model the code.       *)

\* the escape the mapping table gives one character of the original text
MappedEscape(c) ==
    IF c # "$" /\ \E k \in 1..Len(special_chars) : special_chars[k][1] = c
    THEN special_chars[CHOOSE k \in 1..Len(special_chars) : special_chars[k][1] = c][2]
    ELSE <<c>>

\* the character-by-character mapping of a text
CharwiseEscape(t) == Cat([k \in 1..Len(t) |-> MappedEscape(t[k])])

\* C1: for every text without '$', escape_latex returns the character-by-character
\* mapping of the original text: a backslash that a replacement introduced is not
\* escaped again.
C1_NoDoubleEscape ==
    (pc = "esc_done" /\ \A k \in 1..Len(text) : text[k] # "$")
        => escaped_text = CharwiseEscape(text)

\* C2: at the start of every line-processing step the code-fence flag and the
\* table flag are not both true.
C2_FlagsExclusive ==
    (pc = "loop" /\ idx <= Len(lines)) => ~(in_code_block /\ in_table)

\* the step processes a line inside a code block that is not a fence line
CodeBlockStep ==
    /\ pc = "loop"
    /\ idx <= Len(lines)
    /\ in_code_block
    /\ ~StartsWith(lines[idx], Fence)

\* C3 as claimed: every line between an opening fence line and the next fence line
\* is appended to the output unchanged, trailing whitespace included.
C3_CodeLinesVerbatim ==
    [][CodeBlockStep => latex_lines' = Append(latex_lines, lines[idx])]_vars

\* C3 as amended: every line between an opening fence line and the next fence line
\* is appended to the output with its trailing whitespace removed and otherwise
\* unchanged: nothing is escaped, rewritten or interpreted.
C3_CodeLinesRightTrimmed ==
    [][CodeBlockStep => latex_lines' = Append(latex_lines, RStrip(lines[idx]))]_vars

\* a line with a special character, emphasis markers and trailing whitespace has
\* been passed through inside a code block
C3_Witness ==
    /\ pc = "loop"
    /\ idx = 3
    /\ in_code_block
    /\ lines[1] = Fence
    /\ lines[2] = <<"*","a","&","*"," ">>
    /\ latex_lines = Preamble \o <<BeginListing, <<"*","a","&","*">>>>

\* the number of c in s
CountChar(s, c) == Cardinality({k \in 1..Len(s) : s[k] = c})

\* the line is a table row: trimmed, it starts and ends with the delimiter
RowLine(l) == StartsWith(Strip(l), <<"|">>) /\ EndsWith(Strip(l), <<"|">>)

\* the columns of a table row: the delimiters of the trimmed line bound them
ColumnsOf(l) == CountChar(Strip(l), "|") - 1

\* the tabular declaration of n left-aligned bordered columns
TabularOf(n) == <<"\\","b","e","g","i","n","{","t","a","b","u","l","a","r","}","{","|">> \o Cat([k \in 1..n |-> <<"l","|">>]) \o <<"}">>

\* every cell of the row holds text: no two delimiters are adjacent
FullCells(l) == \A m \in 1..(Len(l) - 1) : ~(l[m] = "|" /\ l[m + 1] = "|")

\* the document is a table block of a header row, a separator row and one data
\* row of n columns each, followed by nothing or by one line that is no table row
\* and no fence
TableBlockOf(n) ==
    /\ n >= 1
    /\ Len(lines) \in {3, 4}
    /\ \A k \in 1..3 : RowLine(lines[k]) /\ FullCells(lines[k]) /\ ColumnsOf(lines[k]) = n
    /\ Len(lines) = 4 => (~RowLine(lines[4]) /\ ~StartsWith(lines[4], Fence))

\* C4: a table block of header, separator and one data row with N columns gives
\* one tabular declaration with exactly N column specifiers and exactly two
\* content rows, whatever the indentation of the header line.
C4_TableShape ==
    (pc = "done" /\ TableBlockOf(ColumnsOf(lines[1]))) =>
        LET tex == Split(latex_lines[Len(Preamble) + 1], "\n")
        IN  /\ Len(tex) = 8
            /\ tex[3] = TabularOf(ColumnsOf(lines[1]))
            /\ EndsWith(tex[5], <<" ","\\","\\"," ","\\","h","l","i","n","e">>)
            /\ EndsWith(tex[6], <<" ","\\","\\"," ","\\","h","l","i","n","e">>)

\* the segment has the form of a math span: $$...$$, or $...$ with a body that is
\* not empty and holds no '$' and no newline
IsMathSpan(p) ==
    \/ /\ Len(p) >= 4
       /\ p[1] = "$" /\ p[2] = "$" /\ p[Len(p) - 1] = "$" /\ p[Len(p)] = "$"
    \/ /\ Len(p) >= 3
       /\ p[1] = "$" /\ p[Len(p)] = "$"
       /\ \A m \in 2..(Len(p) - 1) : p[m] \notin {"$", "\n"}

\* C5: a segment is copied verbatim only when it matched the math-span pattern;
\* every other segment, also one that begins with a '$' that is never closed, has
\* its special characters replaced.
C5_OnlyMathSpansVerbatim ==
    pc = "esc_done" =>
        escaped_text = Cat([k \in 1..Len(parts) |->
                               IF IsMathSpan(parts[k]) THEN parts[k]
                               ELSE clean_part(parts[k])])

\* C6: for text1 $x+y$ text2, with no special character and no '$' in text1 and
\* text2, escape_latex returns the escaped text1, the span $x+y$ unchanged, and
\* the escaped text2.
C6_MathSpanPreserved ==
    pc = "esc_done" =>
        \A t1 \in SideTexts, t2 \in SideTexts :
            text = t1 \o <<" ">> \o XPlusY \o <<" ">> \o t2
                => escaped_text = escape_latex(t1) \o <<" ">> \o XPlusY \o <<" ">>
                                    \o escape_latex(t2)

\* escape_latex has returned for a text1 $x+y$ text2 with emphasis markers around
\* the span
C6_Witness ==
    /\ pc = "esc_done"
    /\ text = <<"a","*"," ","$","x","+","y","$"," ","*","a">>
    /\ escaped_text = <<"a","*"," ","$","x","+","y","$"," ","*","a">>
    /\ Len(parts) = 3

\* the position of the last fence line of the document (0: none)
LastFence ==
    IF \E k \in 1..Len(lines) : StartsWith(lines[k], Fence)
    THEN CHOOSE k \in 1..Len(lines) :
             /\ StartsWith(lines[k], Fence)
             /\ \A m \in (k + 1)..Len(lines) : ~StartsWith(lines[m], Fence)
    ELSE 0

\* the input lines after the last fence line
AfterLastFence == SubSeq(lines, LastFence + 1, Len(lines))

RECURSIVE InOrderIn(_, _)
\* every entry of xs occurs in ys, in the order of xs
InOrderIn(xs, ys) ==
    IF xs = <<>> THEN TRUE
    ELSE IF ys = <<>> THEN FALSE
    ELSE IF Head(xs) = Head(ys) THEN InOrderIn(Tail(xs), Tail(ys))
    ELSE InOrderIn(xs, Tail(ys))

\* the number of entries of the output equal to the marker
CountLines(marker) == Cardinality({k \in 1..Len(latex_lines) : latex_lines[k] = marker})

FlushStep ==
    /\ pc = "loop"
    /\ in_table
    /\ \/ idx > Len(lines)
       \/ /\ idx <= Len(lines)
          /\ ~in_code_block
          /\ ~StartsWith(lines[idx], Fence)
          /\ ~RowLine(lines[idx])

\* C8: table_buffer is non-empty only while in_table is true, and right after a
\* flush table_buffer is empty and in_table is false.
C8_BufferOnlyInTable ==
    /\ [](table_buffer # <<>> => in_table)
    /\ [][FlushStep => (table_buffer' = <<>> /\ in_table' = FALSE)]_vars

\* a table of two rows has been flushed by a quote line
C8_Witness ==
    /\ pc = "loop"
    /\ idx = 4
    /\ lines = << <<"|","a","|","b","|">>, <<"|","|","a","|">>, <<">"," ","a">> >>
    /\ table_buffer = <<>>
    /\ ~in_table
    /\ Len(latex_lines) = Len(Preamble) + 2
    /\ StartsWith(latex_lines[Len(Preamble) + 1], <<"\\","b","e","g","i","n","{","t","a","b","l","e","}">>)

\* the length of the run of '#' the line starts with
HashRun(l) ==
    CHOOSE k \in 0..Len(l) :
        /\ \A m \in 1..k : l[m] = "#"
        /\ k < Len(l) => l[k + 1] # "#"

\* the line is a run of 1..5 '#', a space and a title that is not empty
HeadingLine(l) ==
    /\ HashRun(l) \in 1..5
    /\ Len(l) > HashRun(l)
    /\ l[HashRun(l) + 1] = " "
    /\ Strip(From(l, HashRun(l) + 1)) # <<>>

\* the line is a run of 6 or more '#', or a run of '#' with nothing after it
NoHeadingLine(l) ==
    \/ HashRun(l) >= 6
    \/ HashRun(l) >= 1 /\ RStrip(l) = SubSeq(l, 1, HashRun(l))

\* the heading markup of each level
HeadingOpen == << <<"\\","p","a","r","t","{">>, <<"\\","c","h","a","p","t","e","r","{">>, <<"\\","s","e","c","t","i","o","n","{">>, <<"\\","s","u","b","s","e","c","t","i","o","n","{">>,
                  <<"\\","s","u","b","s","u","b","s","e","c","t","i","o","n","{">> >>

\* the step appends, after the table it may have to flush, the one entry e
AppendsOne(e) ==
    /\ Len(latex_lines') = Len(latex_lines) + (IF in_table THEN 2 ELSE 1)
    /\ latex_lines'[Len(latex_lines')] = e

\* C9: outside a code block, a line of k '#' (1 <= k <= 5), a space and a title
\* gives exactly one output line, the escaped trimmed title wrapped in the markup
\* of level k with no emphasis formatting; a run of 6 or more '#' or a bare marker
\* is no heading and goes through the paragraph rule.
C9_HeadingMapping ==
    [][(pc = "loop" /\ idx <= Len(lines) /\ ~in_code_block) =>
          /\ HeadingLine(lines[idx]) =>
                 AppendsOne(HeadingOpen[HashRun(lines[idx])]
                            \o escape_latex(Strip(From(lines[idx], HashRun(lines[idx]) + 1)))
                            \o <<"}">>)
          /\ NoHeadingLine(lines[idx]) =>
                 AppendsOne(process_formatting(escape_latex(RStrip(lines[idx])))
                            \o <<" ","\\","\\">>)
      ]_vars

\* a heading of level 4 whose title needs trimming has been converted after a
\* run of 6 '#' went through the paragraph rule
C9_Witness ==
    /\ pc = "loop"
    /\ idx = 4
    /\ lines = << <<"#","#","#","#","#","#"," ","a">>, <<"#","#","#","#"," ","a">>, <<"#","#"," "," ","*","a","&","*">> >>
    /\ latex_lines[Len(Preamble) + 2] = <<"\\","s","u","b","s","e","c","t","i","o","n","{","a","}">>
    /\ latex_lines[Len(Preamble) + 3] = <<"\\","c","h","a","p","t","e","r","{","*","a","\\","t","e","x","t","b","a","c","k","s","l","a","s","h","{","}","&","*","}">>
    /\ Len(latex_lines) = Len(Preamble) + 3

\* the line is a bullet line: trimmed, it starts with '- ' or '* '
BulletLine(l) == StartsWith(Strip(l), <<"-"," ">>) \/ StartsWith(Strip(l), <<"*"," ">>)

\* C10: outside code and table mode every bullet line appends exactly three output
\* lines: the list open marker, one item line and the list close marker.
C10_ListPerLine ==
    [][(pc = "loop" /\ idx <= Len(lines) /\ ~in_code_block /\ ~in_table
           /\ BulletLine(lines[idx])) =>
          /\ Len(latex_lines') = Len(latex_lines) + 3
          /\ SubSeq(latex_lines', 1, Len(latex_lines)) = latex_lines
          /\ latex_lines'[Len(latex_lines) + 1] = <<"\\","b","e","g","i","n","{","i","t","e","m","i","z","e","}">>
          /\ StartsWith(latex_lines'[Len(latex_lines) + 2], <<"\\","i","t","e","m"," ">>)
          /\ latex_lines'[Len(latex_lines) + 3] = <<"\\","e","n","d","{","i","t","e","m","i","z","e","}">>
      ]_vars

\* two consecutive bullet lines have given two closed lists of one item each
C10_Witness ==
    /\ pc = "loop"
    /\ idx = 3
    /\ lines[1] = <<"-"," ","a">>
    /\ lines[2] = <<" ","*"," ","a","&">>
    /\ SubSeq(latex_lines, Len(Preamble) + 1, Len(latex_lines))
           = << <<"\\","b","e","g","i","n","{","i","t","e","m","i","z","e","}">>, <<"\\","i","t","e","m"," ","a">>, <<"\\","e","n","d","{","i","t","e","m","i","z","e","}">>,
                <<"\\","b","e","g","i","n","{","i","t","e","m","i","z","e","}">>, <<"\\","i","t","e","m"," ","a","\\","t","e","x","t","b","a","c","k","s","l","a","s","h","{","}","&">>, <<"\\","e","n","d","{","i","t","e","m","i","z","e","}">> >>


----------------------------------------------------------------------------
(* C11: the output buffer is append-only                                    *)

\* xs is a prefix of ys
IsPrefix(xs, ys) == Len(xs) <= Len(ys) /\ \A k \in 1..Len(xs) : ys[k] = xs[k]

\* a step of the loop, or the step after it, has appended to an output that
\* already held entries
C11_Witness ==
    /\ pc = "loop"
    /\ idx > 2
    /\ Len(latex_lines) > Len(Preamble) + 1

\* C11: in every step of a conversion the previous content of latex_lines is an
\* unchanged prefix of the new content: no entry is removed, reordered or rewritten
C11_AppendOnly == [][IsPrefix(latex_lines, latex_lines')]_vars

----------------------------------------------------------------------------
(* C12: conversion state does not survive across calls                      *)

\* C12: a second convert() on the same converter returns exactly what the first
\* call returned
C12_SecondCallSame ==
    (pc = "done" /\ previous # <<>>) => result = previous[Len(previous)]

----------------------------------------------------------------------------
(* C13: escaping leaves text without special characters unchanged           *)

\* the characters the claim calls special: the keys of the mapping but '$'
SpecialCharacters == {"&", "%", "#", "_", "{", "}", "~", "^", "\\"}

NoSpecial(t) == \A k \in 1..Len(t) : t[k] \notin SpecialCharacters

----------------------------------------------------------------------------
(* C14: malformed constructs never make the conversion fail                 *)

\* the lines of a document hold an unbalanced emphasis marker
Unbalanced == <<"*","*","a","*">>

\* convert() has returned for a document that ends inside a code fence and holds
\* a row of the delimiter alone, and for one with unbalanced emphasis markers
C14_Witness ==
    /\ pc = "done"
    /\ \/ in_code_block /\ \E k \in 1..Len(lines) : lines[k] = <<"|">>
       \/ \E k \in 1..Len(lines) : lines[k] = Unbalanced

\* C14: for every document convert() goes through the lines once, one line per
\* step of the loop, and returns an output: no line leaves it without a rule to
\* apply (an error), whatever malformed construct the document holds
C14_AlwaysReturns ==
    /\ <>(pc = "done" /\ idx = Len(lines) + 1 /\ EndsWith(result, EndDocument))
    /\ [][(pc = "loop" /\ pc' = "loop") => idx' = idx + 1]_vars

----------------------------------------------------------------------------
(* C15: the table ends, and is written, before the line after it            *)

\* C15: whenever a line that is not a table row is processed while in_table is
\* true, a fence line or a line in a code block included, the step clears the
\* table state and the first entry it appends is the flushed table, so that the
\* table stands in the output before whatever the line emits
C15_TableBeforeNextLine ==
    [][(InLoop /\ in_table /\ ~IsTableRow(line)) =>
          /\ ~in_table'
          /\ table_buffer' = <<>>
          /\ Len(latex_lines') > Len(latex_lines)
          /\ latex_lines'[Len(latex_lines) + 1] = flush_table(table_buffer, in_table).ret]_vars

----------------------------------------------------------------------------
(* C16: the inline formatter leaves math spans alone                        *)

\* sub stands in s, character for character
Contains(s, sub) ==
    \E i \in 1..(Len(s) - Len(sub) + 1) : SubSeq(s, i, i + Len(sub) - 1) = sub

\* every math span of the input text stands verbatim in the emitted line
SpansKept(input, emitted) ==
    \A k \in 1..Len(ReSplit(input)) :
        IsMathSpan(ReSplit(input)[k]) => Contains(emitted, ReSplit(input)[k])

\* C16: for every paragraph, quote or list line, each math span of the input
\* appears verbatim in the line emitted for it, also when the span holds
\* emphasis markers
C16_MathSpansUnformatted ==
    [][/\ (PastMath /\ Strip(line) # <<>>) =>
              SpansKept(line, latex_lines'[Len(latex_lines')])
       /\ (PastTable /\ process_headers(line) = None /\ IsQuote(line)) =>
              SpansKept(From(line, 2), latex_lines'[Len(latex_lines')])
       /\ (PastTable /\ process_headers(line) = None /\ ~IsQuote(line) /\ IsBullet(line)) =>
              SpansKept(From(Strip(line), 2), latex_lines'[Len(latex_lines') - 1])]_vars

----------------------------------------------------------------------------
(* C17: table row parsing                                                   *)

\* the cells the claim gives a row: the trimmed line without its first and its
\* last '|', split on '|', each cell trimmed
ClaimedCells(l) ==
    LET inner == SubSeq(Strip(l), 2, Len(Strip(l)) - 1)
    IN  [k \in 1..Len(Split(inner, "|")) |-> Strip(Split(inner, "|")[k])]

\* C17: for every line classified as a table row the cells that are buffered are
\* the trimmed line with exactly one leading and one trailing '|' removed, split
\* on '|', each cell trimmed; also for indented rows and rows whose first or last
\* cell is empty
C17_RowCells ==
    [][(InLoop /\ ~IsFence(line) /\ ~in_code_block /\ IsTableRow(line)
            /\ Len(Strip(line)) >= 2) =>
          table_buffer' = Append(table_buffer, ClaimedCells(line))]_vars

----------------------------------------------------------------------------
(* C18: the standalone math delimiter                                       *)

----------------------------------------------------------------------------
(* C19: the end of the input                                                *)

\* the loop is over and convert() is about to finish
AtEnd == pc = "loop" /\ idx > Len(lines)

\* the row stands as a line of the flushed table
RowIn(row, table) ==
    \E j \in 1..Len(Split(table, "\n")) : Split(table, "\n")[j] = TableRowTex(row)

\* convert() has returned for a document that ended in a table of three rows
C19_Witness ==
    /\ pc = "done"
    /\ Len(lines) = 3
    /\ \A k \in 1..3 : IsTableRow(lines[k])
    /\ Len(latex_lines) = Len(Preamble) + 2

\* C19: when convert() returns, table_buffer is empty and in_table is false; a
\* table still buffered at the end of the input is flushed exactly once, before
\* the document-close marker, with its header row and every row after the
\* separator row; the document-close marker is always the last output line
C19_EndOfInput ==
    /\ [](pc = "done" =>
            /\ table_buffer = <<>>
            /\ ~in_table
            /\ latex_lines[Len(latex_lines)] = EndDocument)
    /\ [][AtEnd =>
            IF table_buffer # <<>>
            THEN /\ Len(latex_lines') = Len(latex_lines) + 2
                 /\ SubSeq(latex_lines', 1, Len(latex_lines)) = latex_lines
                 /\ \A k \in 1..Len(table_buffer) :
                       k # 2 => RowIn(table_buffer[k], latex_lines'[Len(latex_lines) + 1])
            ELSE latex_lines' = Append(latex_lines, EndDocument)]_vars

----------------------------------------------------------------------------
(* C20: convert_file and the exceptions of its try block                    *)

\* the success message has been printed
SuccessPrinted == \E k \in 1..Len(printed) : printed[k].kind = "success"

\* what holds of every call, whatever is raised
FileOrder ==
    /\ exc \in InputErrors => out_file = "untouched"
    /\ SuccessPrinted => out_file = "written"
    /\ (fpc = "returned" /\ exc = "none") =>
           out_file = "written" /\ printed = SuccessMessages
    /\ (fpc = "returned" /\ exc # "none") => printed = <<ErrorMessage(exc)>>

\* C20 as stated: every exception raised while reading, converting or writing is
\* caught: it reaches the handler, one error message with its text is printed and
\* convert_file returns normally; a failed read leaves the output unopened, and
\* the success message is printed only after the write
C20_EveryExceptionCaught ==
    /\ [](FileOrder /\ fpc # "raised")
    /\ [][fpc = "except" => fpc' = "returned"]_vars

\* reading the input has failed, the message was printed and convert_file returned
C20_Witness ==
    /\ fpc = "returned"
    /\ exc \in InputErrors
    /\ printed = <<ErrorMessage(exc)>>
    /\ out_file = "untouched"

\* C20, amended: every exception of class Exception raised while reading,
\* converting or writing is caught, with one error message and a normal return;
\* only an exception that is no Exception (KeyboardInterrupt) leaves convert_file,
\* and then nothing is printed; a failed read leaves the output unopened, and the
\* success message is printed only after the write
C20_ExceptionsOfClassExceptionCaught ==
    /\ [](/\ FileOrder
          /\ fpc = "raised" => (exc = "KeyboardInterrupt" /\ printed = <<>>)
          /\ (exc \in InputErrors \cup OutputErrors) => fpc \in {"except", "returned"})
    /\ [][fpc = "except" => fpc' = "returned"]_vars
====
